---- MODULE Spec2Model ----
(***************************************************************************)
(* Model of the EEG query service (backend/rust-backend/src/main.rs):      *)
(* the handlers root, health, dbtest, get_samples and get_live over the    *)
(* eeg_samples table, with the PostgreSQL queries they issue evaluated as  *)
(* WHERE / ORDER BY / LIMIT over the stored rows.                          *)
(***************************************************************************)
EXTENDS Integers, Sequences, FiniteSets, TLC

\* ---- bounds of the model ------------------------------------------------
MaxRows == 3        \* rows the table may hold
MaxGap  == 1        \* ids a sequence may skip between two inserts

\* ---- constants of the program -------------------------------------------
DefaultChannel      == "A3"
DefaultSamplesLimit == 100
DefaultLiveLimit    == 200
DefaultSinceId      == 0
LimitCeiling        == 1000
OkStatus            == 200
InternalServerError == 500

\* ---- input domains ------------------------------------------------------
MaxId        == MaxRows + MaxGap
Channels     == {"A3", "B1"}
None         == << >>
Some(v)      == << v >>
ChannelInputs == {None} \cup {Some(c) : c \in Channels \cup {"UNKNOWN"}}
SinceInputs   == {None} \cup {Some(i) : i \in -1 .. MaxId}
LimitInputs   == {None} \cup {Some(i) : i \in {-1, 0, 1, 2, LimitCeiling, LimitCeiling + 1}}
PollLimits    == {None} \cup {Some(i) : i \in {-1, 0, 1, 2}}
DrainLimits   == {None, Some(1), Some(2)}

\* Option::unwrap_or
unwrap_or(o, d) == IF o = None THEN d ELSE o[1]

\* i32::min
min(a, b) == IF a <= b THEN a ELSE b

VARIABLES
    table,      \* eeg_samples: set of rows [id, ts, channel, value]
    nextId,     \* next value of the id sequence
    req,        \* decoded query of the request handled last (LiveQuery)
    binds,      \* parameters bound to the query of that request
    queries,    \* number of queries that request issued
    db,         \* what storage answered to the last query
    resp,       \* its response [endpoint, status, body]
    client      \* a polling client: its cursor and what it received

vars == <<table, nextId, req, binds, queries, db, resp, client>>

\* ---- storage ------------------------------------------------------------
\* a row of eeg_samples; timestamp and value are those the writer stored
TsOf(id)    == 100 + id
ValueOf(id) == 10 * id + 5

EegSample(id, ch) == [id |-> id, ts |-> TsOf(id), channel |-> ch, value |-> ValueOf(id)]

\* faulty variant: ORDER BY id DESC, as in /samples
RECURSIVE OrderByIdAsc_Desc(_)
OrderByIdAsc_Desc(S) ==
    IF S = {} THEN << >>
    ELSE LET m == CHOOSE r \in S : \A q \in S : r.id >= q.id
         IN  <<m>> \o OrderByIdAsc_Desc(S \ {m})

RECURSIVE OrderByIdAsc(_)
OrderByIdAsc(S) ==
    IF S = {} THEN << >>
    ELSE LET m == CHOOSE r \in S : \A q \in S : r.id <= q.id
         IN  <<m>> \o OrderByIdAsc(S \ {m})

RECURSIVE OrderByIdDesc(_)
OrderByIdDesc(S) ==
    IF S = {} THEN << >>
    ELSE LET m == CHOOSE r \in S : \A q \in S : r.id >= q.id
         IN  <<m>> \o OrderByIdDesc(S \ {m})

\* LIMIT n of a row sequence (n >= 0)
Limit(s, n) == SubSeq(s, 1, min(n, Len(s)))

DbOk(rows) == [ok |-> TRUE, rows |-> rows]
DbErr(msg) == [ok |-> FALSE, err |-> msg]

PoolError  == "pool timed out while waiting for an open connection"
LimitError == "error returned from database: LIMIT must not be negative"

\* SELECT 1
SelectOne(fail) == IF fail THEN DbErr(PoolError) ELSE DbOk(<< <<1>> >>)

\* faulty variant: the WHERE clause is missing
SelectSamples_AnyChannel(tbl, ch, lim, fail) ==
    IF fail THEN DbErr(PoolError)
    ELSE IF lim < 0 THEN DbErr(LimitError)
    ELSE DbOk(Limit(OrderByIdDesc(tbl), lim))

\* SELECT id, ts, channel, value FROM eeg_samples
\*   WHERE channel = $1 ORDER BY id DESC LIMIT $2
SelectSamples(tbl, ch, lim, fail) ==
    IF fail THEN DbErr(PoolError)
    ELSE IF lim < 0 THEN DbErr(LimitError)
    ELSE DbOk(Limit(OrderByIdDesc({r \in tbl : r.channel = ch}), lim))

\* faulty variant: id >= $2 instead of id > $2
SelectLive_Inclusive(tbl, ch, since, lim, fail) ==
    IF fail THEN DbErr(PoolError)
    ELSE IF lim < 0 THEN DbErr(LimitError)
    ELSE LET rows == Limit(OrderByIdAsc({r \in tbl : r.channel = ch /\ r.id >= since}), lim)
         IN  DbOk([i \in 1 .. Len(rows) |-> <<rows[i].id, rows[i].ts, rows[i].value>>])

\* SELECT id, ts, value FROM eeg_samples
\*   WHERE channel = $1 AND id > $2 ORDER BY id ASC LIMIT $3
SelectLive(tbl, ch, since, lim, fail) ==
    IF fail THEN DbErr(PoolError)
    ELSE IF lim < 0 THEN DbErr(LimitError)
    ELSE LET rows == Limit(OrderByIdAsc({r \in tbl : r.channel = ch /\ r.id > since}), lim)
         IN  DbOk([i \in 1 .. Len(rows) |-> <<rows[i].id, rows[i].ts, rows[i].value>>])

\* ---- response shaping ---------------------------------------------------
LivePoint(t) == [id |-> t[1], ts |-> t[2], value |-> t[3]]

\* faulty variant: points.first() instead of points.last()
LastId_First(points, since_id) ==
    IF Len(points) = 0 THEN since_id ELSE points[1][1]

\* faulty variant: unwrap_or(0) instead of unwrap_or(since_id)
LastId_Zero(points, since_id) ==
    IF Len(points) = 0 THEN 0 ELSE points[Len(points)][1]

\* points.last().map(|(id, _, _)| *id).unwrap_or(since_id)
LastId(points, since_id) ==
    IF Len(points) = 0 THEN since_id ELSE points[Len(points)][1]

Response(ep, status, body) == [endpoint |-> ep, status |-> status, body |-> body]

\* faulty variant: the error text is replaced by a fixed message
MapErr_Opaque(ep, res) == Response(ep, InternalServerError, "internal error")

\* .map_err(|e| (StatusCode::INTERNAL_SERVER_ERROR, e.to_string()))
MapErr(ep, res) == Response(ep, InternalServerError, res.err)

\* faulty variant: a limit of 0 is taken as "use the default"
SamplesLimit_ZeroIsDefault(limit) ==
    IF unwrap_or(limit, DefaultSamplesLimit) = 0 THEN DefaultSamplesLimit
    ELSE min(unwrap_or(limit, DefaultSamplesLimit), LimitCeiling)

\* faulty variant: the ceiling is not applied
LiveLimit_Unclamped(limit) == unwrap_or(limit, DefaultLiveLimit)

SamplesLimit(limit) == min(unwrap_or(limit, DefaultSamplesLimit), LimitCeiling)
LiveLimit(limit)    == min(unwrap_or(limit, DefaultLiveLimit), LimitCeiling)

\* faulty variant: an empty result is reported as not found
SamplesResponse_NotFound(res) ==
    IF res.ok /\ res.rows # << >> THEN Response("samples", OkStatus, res.rows)
    ELSE IF res.ok THEN Response("samples", 404, "no rows")
    ELSE MapErr("samples", res)

SamplesResponse(res) ==
    IF res.ok THEN Response("samples", OkStatus, res.rows)
    ELSE MapErr("samples", res)

LiveResponse(res, channel, since_id) ==
    IF res.ok
    THEN Response("live", OkStatus,
                  [points  |-> [i \in 1 .. Len(res.rows) |-> LivePoint(res.rows[i])],
                   last_id |-> LastId(res.rows, since_id),
                   channel |-> channel])
    ELSE MapErr("live", res)

DbtestResponse(res) ==
    IF res.ok THEN Response("dbtest", OkStatus, [ok |-> TRUE, value |-> res.rows[1][1]])
    ELSE MapErr("dbtest", res)

LiveQuery(ch, since, lim) == [channel |-> ch, since_id |-> since, limit |-> lim]

\* ---- a polling client ----------------------------------------------------
NoClient == [active |-> FALSE]

NoPoll == [since |-> 0, points |-> << >>]

\* a client about to poll a channel for the first time
NewClient(ch, since) ==
    [active   |-> TRUE,
     channel  |-> ch,                               \* the channel parameter it sends
     cursor   |-> since,                            \* the since_id parameter it sends next
     init     |-> unwrap_or(since, DefaultSinceId), \* the since_id it started from
     received |-> << >>,                            \* every point delivered to it
     polls    |-> 0,                                \* successful polls, counted up to 2
     prev     |-> NoPoll,                           \* the successful poll before the last
     last     |-> NoPoll,                           \* the last successful poll
     dirty    |-> FALSE,                            \* a row was written since the last poll
     quiet    |-> FALSE]                            \* no row was written between prev and last

\* the client reads a response: on success it takes the points and moves its
\* cursor to last_id; on failure it keeps its cursor and polls again
Receive(c, since_id, r) ==
    IF r.status = OkStatus
    THEN [c EXCEPT !.cursor   = Some(r.body.last_id),
                   !.received = @ \o r.body.points,
                   !.polls    = min(@ + 1, 2),
                   !.prev     = c.last,
                   !.last     = [since |-> since_id, points |-> r.body.points],
                   !.dirty    = FALSE,
                   !.quiet    = ~c.dirty]
    ELSE c

NoRequest  == LiveQuery(None, None, None)
NoResponse == Response("none", 0, "")

\* ---- initial state ------------------------------------------------------
Init ==
    /\ table = {}
    /\ nextId = 1
    /\ req = NoRequest
    /\ binds = << >>
    /\ queries = 0
    /\ db = DbOk(<< >>)
    /\ resp = NoResponse
    /\ client = NoClient

\* ---- the writer of eeg_samples (outside the service) --------------------
Insert(ch, gap) ==
    /\ resp = NoResponse
    /\ Cardinality(table) < MaxRows
    /\ nextId + gap <= MaxId
    /\ table' = table \cup {EegSample(nextId + gap, ch)}
    /\ nextId' = nextId + gap + 1
    /\ UNCHANGED <<req, binds, queries, db, resp>>

\* ---- handlers -----------------------------------------------------------
root ==
    /\ resp = NoResponse
    /\ req' = NoRequest
    /\ binds' = << >>
    /\ queries' = 0
    /\ UNCHANGED db
    /\ resp' = Response("root", OkStatus, "Rust EEG Backend")
    /\ UNCHANGED <<table, nextId>>

health ==
    /\ resp = NoResponse
    /\ req' = NoRequest
    /\ binds' = << >>
    /\ queries' = 0
    /\ UNCHANGED db
    /\ resp' = Response("health", OkStatus, "OK")
    /\ UNCHANGED <<table, nextId>>

dbtest(fail) ==
    /\ resp = NoResponse
    /\ req' = NoRequest
    /\ binds' = << >>
    /\ queries' = 1
    /\ db' = SelectOne(fail)
    /\ resp' = DbtestResponse(db')
    /\ UNCHANGED <<table, nextId>>

get_samples(ch, lim, fail) ==
    LET channel == unwrap_or(ch, DefaultChannel)
        limit   == SamplesLimit(lim)
    IN  /\ resp = NoResponse
        /\ req' = LiveQuery(ch, None, lim)
        /\ binds' = <<channel, limit>>
        /\ queries' = 1
        /\ db' = SelectSamples(table, channel, limit, fail)
        /\ resp' = SamplesResponse(db')
        /\ UNCHANGED <<table, nextId>>

get_live(ch, since, lim, fail) ==
    LET channel  == unwrap_or(ch, DefaultChannel)
        since_id == unwrap_or(since, DefaultSinceId)
        limit    == LiveLimit(lim)
    IN  /\ resp = NoResponse
        /\ req' = LiveQuery(ch, since, lim)
        /\ binds' = <<channel, since_id, limit>>
        /\ queries' = 1
        /\ db' = SelectLive(table, channel, since_id, limit, fail)
        /\ resp' = LiveResponse(db', channel, since_id)
        /\ UNCHANGED <<table, nextId>>

\* the response leaves the service; nothing of the request is kept
reply ==
    /\ resp # NoResponse
    /\ req' = NoRequest
    /\ binds' = << >>
    /\ queries' = 0
    /\ db' = DbOk(<< >>)
    /\ resp' = NoResponse
    /\ UNCHANGED <<table, nextId>>

\* ---- the service under arbitrary requests and writes --------------------
Write      == \E ch \in Channels, gap \in 0 .. MaxGap : Insert(ch, gap) /\ UNCHANGED client
Root       == root /\ UNCHANGED client
Health     == health /\ UNCHANGED client
DbTest     == \E fail \in BOOLEAN : dbtest(fail) /\ UNCHANGED client
GetSamples == \E ch \in ChannelInputs, lim \in LimitInputs, fail \in BOOLEAN :
                  get_samples(ch, lim, fail) /\ UNCHANGED client
GetLive    == \E ch \in ChannelInputs, since \in SinceInputs, lim \in LimitInputs,
                 fail \in BOOLEAN :
                  get_live(ch, since, lim, fail) /\ UNCHANGED client

Reply      == reply /\ UNCHANGED client

Next == Write \/ Root \/ Health \/ DbTest \/ GetSamples \/ GetLive \/ Reply

Spec == Init /\ [][Next]_vars

\* ---- a client polling /live while rows are written -----------------------
poll(lim, fail) ==
    /\ get_live(client.channel, client.cursor, lim, fail)
    /\ client' = Receive(client, unwrap_or(client.cursor, DefaultSinceId), resp')

InitPoll ==
    /\ table = {}
    /\ nextId = 1
    /\ req = NoRequest
    /\ binds = << >>
    /\ queries = 0
    /\ db = DbOk(<< >>)
    /\ resp = NoResponse
    /\ client \in {NewClient(ch, since) : ch \in ChannelInputs, since \in SinceInputs}

WriteNoted == \E ch \in Channels, gap \in 0 .. MaxGap :
                  Insert(ch, gap) /\ client' = [client EXCEPT !.dirty = TRUE]
Poll       == \E lim \in PollLimits, fail \in BOOLEAN : poll(lim, fail)

NextPoll == WriteNoted \/ Poll \/ Reply

SpecPoll == InitPoll /\ [][NextPoll]_vars

\* ---- a client draining /live from a table that no longer changes ---------
\* the tables the writer can have produced
AllRows == {EegSample(id, ch) : id \in 1 .. MaxId, ch \in Channels}
Tables  == {t \in SUBSET AllRows :
               /\ Cardinality(t) <= MaxRows
               /\ \A r, q \in t : r.id = q.id => r = q
               /\ \A r \in t : \E j \in {0} \cup {q.id : q \in t} :
                      j < r.id /\ r.id - j <= MaxGap + 1}

InitDrain ==
    /\ table \in Tables
    /\ nextId = MaxId + 1
    /\ req = NoRequest
    /\ binds = << >>
    /\ queries = 0
    /\ db = DbOk(<< >>)
    /\ resp = NoResponse
    /\ client \in {NewClient(ch, since) : ch \in ChannelInputs, since \in SinceInputs}

Drain == \E lim \in DrainLimits : poll(lim, FALSE)

NextDrain == Drain \/ Reply

SpecDrain == InitDrain /\ [][NextDrain]_vars /\ WF_vars(Drain) /\ WF_vars(Reply)

\* ---- vocabulary of the properties ---------------------------------------
SamplesOk == resp.endpoint = "samples" /\ resp.status = OkStatus
LiveOk    == resp.endpoint = "live" /\ resp.status = OkStatus

\* the request as its sender meant it
ReqChannel == IF req.channel = None THEN "A3" ELSE req.channel[1]
ReqSince   == IF req.since_id = None THEN 0 ELSE req.since_id[1]
ReqLimit(default) ==
    LET asked == IF req.limit = None THEN default ELSE req.limit[1]
    IN  IF asked > 1000 THEN 1000 ELSE asked

RowsOf(ch)        == {r \in table : r.channel = ch}
NewerThan(ch, id) == {r \in table : r.channel = ch /\ r.id > id}
Ids(s)            == {s[i].id : i \in 1 .. Len(s)}
StrictlyAscending(s)  == \A i, j \in 1 .. Len(s) : i < j => s[i].id < s[j].id
StrictlyDescending(s) == \A i, j \in 1 .. Len(s) : i < j => s[i].id > s[j].id
PointOf(r)        == [id |-> r.id, ts |-> r.ts, value |-> r.value]

\* C2: a successful /live whose since_id is at or beyond the newest id of the
\* channel (or whose channel has no rows) has no points and last_id = since_id.
C2_CursorHeldAtEnd ==
    (LiveOk /\ \A r \in RowsOf(ReqChannel) : r.id <= ReqSince)
        => /\ resp.body.points = << >>
           /\ resp.body.last_id = ReqSince

C2_Witness ==
    /\ LiveOk
    /\ RowsOf(ReqChannel) # {}
    /\ \A r \in RowsOf(ReqChannel) : r.id <= ReqSince
    /\ \E r \in RowsOf(ReqChannel) : r.id < ReqSince

\* C3: with an effective limit L >= 0 a successful /live returns exactly the
\* first min(L, n) of the n rows of the channel with id > since_id, in strictly
\* ascending id order; last_id is the highest returned id, or since_id when no
\* point is returned; the channel echoed is the channel queried.
C3_LiveIsOldestNewRows ==
    LiveOk =>
        LET new == NewerThan(ReqChannel, ReqSince)
            L   == ReqLimit(200)
            pts == resp.body.points
        IN  /\ L >= 0
            /\ Len(pts) = (IF L < Cardinality(new) THEN L ELSE Cardinality(new))
            /\ StrictlyAscending(pts)
            /\ \A i \in 1 .. Len(pts) :
                   \E r \in new : /\ pts[i] = PointOf(r)
                                  /\ Cardinality({q \in new : q.id < r.id}) = i - 1
            /\ resp.body.last_id =
                   (IF pts = << >> THEN ReqSince
                    ELSE CHOOSE m \in Ids(pts) : \A k \in Ids(pts) : k <= m)
            /\ resp.body.channel = ReqChannel

C3_Witness ==
    /\ LiveOk
    /\ Len(resp.body.points) = 2
    /\ Cardinality(NewerThan(ReqChannel, ReqSince)) = 3
    /\ resp.body.last_id = resp.body.points[2].id

\* C4: with an effective limit L >= 0 a successful /samples returns exactly
\* the min(L, n) rows with the largest ids among the n rows of the channel,
\* newest first, and no row of another channel.
C4_SamplesIsNewestRows ==
    SamplesOk =>
        LET own  == RowsOf(ReqChannel)
            L    == ReqLimit(100)
            rows == resp.body
        IN  /\ L >= 0
            /\ Len(rows) = (IF L < Cardinality(own) THEN L ELSE Cardinality(own))
            /\ StrictlyDescending(rows)
            /\ \A i \in 1 .. Len(rows) :
                   /\ rows[i] \in own
                   /\ Cardinality({q \in own : q.id > rows[i].id}) = i - 1

C4_Witness ==
    /\ SamplesOk
    /\ Len(resp.body) = 2
    /\ Cardinality(RowsOf(ReqChannel)) = 3

\* C5: whatever limit is asked for, the limit handed to storage is
\* min(requested or default, 1000), the default being 100 for /samples and
\* 200 for /live; it never exceeds 1000 and no response has more rows.
C5_LimitClamped ==
    /\ resp.endpoint = "samples" =>
           /\ binds[2] = ReqLimit(100)
           /\ binds[2] <= 1000
           /\ resp.status = OkStatus => Len(resp.body) <= 1000 /\ Len(resp.body) <= binds[2]
    /\ resp.endpoint = "live" =>
           /\ binds[3] = ReqLimit(200)
           /\ binds[3] <= 1000
           /\ resp.status = OkStatus =>
                  Len(resp.body.points) <= 1000 /\ Len(resp.body.points) <= binds[3]

C5_Witness ==
    /\ resp.endpoint = "live"
    /\ req.limit # None
    /\ req.limit[1] > 1000
    /\ binds[3] = 1000

\* C6: limit = 0 means zero rows and is not replaced by the default:
\* /samples answers an empty array, /live an empty points list with
\* last_id = since_id; the request fails only if storage does.
C6_ZeroLimitIsZeroRows ==
    req.limit = Some(0) =>
        /\ resp.endpoint = "samples" =>
               IF db.ok THEN resp.status = OkStatus /\ resp.body = << >>
               ELSE db.err = PoolError
        /\ resp.endpoint = "live" =>
               IF db.ok THEN /\ resp.status = OkStatus
                             /\ resp.body.points = << >>
                             /\ resp.body.last_id = ReqSince
               ELSE db.err = PoolError

C6_Witness ==
    /\ req.limit = Some(0)
    /\ LiveOk
    /\ NewerThan(ReqChannel, ReqSince) # {}

\* C7: a /samples or /live request for a channel without stored rows succeeds
\* with status 200 and an empty result, unless storage itself fails.
C7_UnknownChannelIsEmpty ==
    (resp.endpoint \in {"samples", "live"} /\ RowsOf(ReqChannel) = {} /\ db.ok)
        => /\ resp.status = OkStatus
           /\ resp.endpoint = "samples" => resp.body = << >>
           /\ resp.endpoint = "live" => resp.body.points = << >>

C7_Witness ==
    /\ SamplesOk
    /\ req.channel = Some("UNKNOWN")
    /\ table # {}
    /\ resp.body = << >>

\* C8: when the storage query of /samples, /live or /dbtest fails, the
\* response is a 500 whose body is the storage error text, the query was
\* issued once, and the response carries no rows and no last_id; a response
\* is either the full result or the failure.
C8_StorageFailureIs500 ==
    resp.endpoint \in {"samples", "live", "dbtest"} =>
        /\ queries = 1
        /\ ~db.ok => resp = [endpoint |-> resp.endpoint, status |-> 500, body |-> db.err]
        /\ db.ok => resp.status = OkStatus
        /\ (db.ok /\ resp.endpoint = "samples") => resp.body = db.rows
        /\ (db.ok /\ resp.endpoint = "live") => Len(resp.body.points) = Len(db.rows)

C8_Witness ==
    /\ resp.endpoint = "live"
    /\ ~db.ok
    /\ db.err = PoolError
    /\ NewerThan(ReqChannel, ReqSince) # {}
    /\ resp.status = 500

\* ---- properties of the polling client -----------------------------------
ClientChannel == IF client.channel = None THEN "A3" ELSE client.channel[1]
Delivered     == {r \in RowsOf(ClientChannel) :
                     client.init < r.id /\ r.id <= client.cursor[1]}

\* C1: with no write in between, a successful /live with since_id = X followed
\* by a /live on the same channel with since_id = the first last_id returns
\* only ids greater than every id of the first call, and the two lists together
\* are the rows of the channel with id > X in ascending order, none skipped.
C1_NextPollContinues ==
    (LiveOk /\ client.polls = 2 /\ client.quiet) =>
        LET X    == client.prev.since
            new  == NewerThan(ClientChannel, X)
            both == client.prev.points \o client.last.points
        IN  /\ client.last.points = resp.body.points
            /\ \A a \in Ids(client.prev.points), b \in Ids(client.last.points) : a < b
            /\ \A i \in 1 .. Len(both) :
                   \E r \in new : /\ both[i] = PointOf(r)
                                  /\ Cardinality({q \in new : q.id < r.id}) = i - 1

C1_Witness ==
    /\ LiveOk
    /\ client.polls = 2
    /\ client.quiet
    /\ client.prev.points # << >>
    /\ client.last.points # << >>
    /\ \E r \in table : /\ r.channel # ClientChannel
                        /\ client.prev.since < r.id
                        /\ r.id < client.cursor[1]

\* C9: with inserts interleaved with the polls, each inserted id above every
\* stored id, what the client has received after a successful poll is exactly
\* the rows of the channel with initial since_id < id <= last_id, once each
\* and in ascending id order.
C9_EveryRowOnce ==
    (client.active /\ client.polls >= 1) =>
        /\ Len(client.received) = Cardinality(Delivered)
        /\ StrictlyAscending(client.received)
        /\ \A i \in 1 .. Len(client.received) :
               \E r \in Delivered : client.received[i] = PointOf(r)

C9_Witness ==
    /\ LiveOk
    /\ client.polls = 2
    /\ ~client.quiet
    /\ client.prev.points # << >>
    /\ client.last.points # << >>
    /\ \E r \in table : /\ r.channel # ClientChannel
                        /\ client.init < r.id
                        /\ r.id < client.cursor[1]

\* C10: on a table that no longer changes and a storage that never fails, a
\* client polling with an effective limit >= 1 gets a strictly larger last_id
\* from every response with a point, and eventually an empty points list, its
\* cursor then being the largest id of the channel, or its initial since_id if
\* no id of the channel exceeds it.
Drained ==
    LET ids == {r.id : r \in RowsOf(ClientChannel)} \cup {client.init}
    IN  CHOOSE m \in ids : \A k \in ids : k <= m

C10_PollingDrains ==
    /\ []((LiveOk /\ resp.body.points # << >>) => resp.body.last_id > ReqSince)
    /\ []((LiveOk /\ resp.body.points = << >>) => client.cursor = Some(Drained))
    /\ <>(LiveOk /\ resp.body.points = << >>)

C10_Witness ==
    /\ LiveOk
    /\ resp.body.points = << >>
    /\ client.polls = 2
    /\ Len(client.received) = 3
    /\ client.cursor = Some(Drained)

====
